---- MODULE Spec2Model ----
(***************************************************************************)
(* BodyTracking component (PoseNet keypoint smoothing, body-part movement  *)
(* detection, motion log, detection loop).                                 *)
(*                                                                         *)
(* Numbers.  The program computes with JavaScript doubles; the model       *)
(* computes with exact rationals held as integers:                         *)
(*   - a keypoint coordinate is an integer count of 1/Scale pixels, a      *)
(*     keypoint score an integer count of 1/(10*Scale); raw frames carry   *)
(*     whole pixels and whole tenths, so every quotient sum/count of       *)
(*     applyTemporalSmoothing (count in 1..SMOOTHING_WINDOW) is exact;     *)
(*   - a part center keeps the quotient of calculatePartCenter as the      *)
(*     exact fraction sx/n, sy/n (n = count); count === 0 (null) is n = 0. *)
(***************************************************************************)
EXTENDS Integers, Sequences, FiniteSets, TLC

\* ---------------------------------------------------------------- bounds
MaxFrames == 10
MaxLogFrames == 15
MaxLoopFrames == 6
MaxSessionFrames == 12
MaxLoops == 2
MaxPassingFrames == 15
MaxCloseFrames == 3
MaxStreams == 6

\* ------------------------------------------------------ program constants
SMOOTHING_WINDOW == 5
MOVEMENT_THRESHOLD == 15
FRAME_SKIP == 5
LOG_CAPACITY == 10
NUM_KEYPOINTS == 17

Scale == 3 * 4 * SMOOTHING_WINDOW
CONFIDENCE_THRESHOLD == 5 * Scale

Indices == 0 .. (NUM_KEYPOINTS - 1)

PartNames == <<"head", "leftArm", "rightArm", "leftLeg", "rightLeg", "torso">>

Limbs == <<"leftArm", "rightArm", "leftLeg", "rightLeg">>

BODY_PARTS ==
  [ head     |-> <<0, 1, 2, 3, 4>>,
    leftArm  |-> <<5, 7, 9>>,
    rightArm |-> <<6, 8, 10>>,
    leftLeg  |-> <<11, 13, 15>>,
    rightLeg |-> <<12, 14, 16>>,
    torso    |-> <<5, 6, 11, 12>> ]

\* `${part.replace(/([A-Z])/g, ' $1').trim()} movement`
LimbText ==
  [ leftArm  |-> "left Arm movement",
    rightArm |-> "right Arm movement",
    leftLeg  |-> "left Leg movement",
    rightLeg |-> "right Leg movement" ]

Abs(n) == IF n < 0 THEN -n ELSE n

Min(a, b) == IF a < b THEN a ELSE b

\* ------------------------------------------------------------ input frames
\* A keypoint as PoseNet delivers it: whole pixels, score in whole tenths.
Keypoint(i, px, py, tenths) ==
  [ part |-> i, position |-> [x |-> px * Scale, y |-> py * Scale], score |-> tenths * Scale ]

BaseX(i) == 100 + 2 * i
BaseY(i) == 100 + i

\* The pose of a person standing still, shifted by (dx, dy) pixels; the
\* keypoints in `low` are reported with score 0.4, the others with 0.9.
MakeFrame(dx, dy, low) ==
  [ i \in Indices |-> Keypoint(i, BaseX(i) + dx, BaseY(i) + dy, IF i \in low THEN 4 ELSE 9) ]

PoseStill == MakeFrame(0, 0, {})
PoseRight == MakeFrame(25, 0, {16})
PoseDim == MakeFrame(-12, 20, {9, 11, 13, 15, 16})

\* only the head is seen (everything from the shoulders down scores 0.4), and
\* only the legs are seen (head, shoulders, elbows and wrists score 0.4)
PoseHeadOnly == MakeFrame(25, 20, 5 .. 16)
PoseLegsOnly == MakeFrame(-25, 0, 0 .. 10)

\* ------------------------------------------------- applyTemporalSmoothing
RECURSIVE SumSeq(_)
SumSeq(s) == IF s = <<>> THEN 0 ELSE Head(s) + SumSeq(Tail(s))

\* keypointHistoryRef.current.push(keypoints); shift() when longer than the window
PushHistoryShiftsNewest(history, keypoints) ==
  LET pushed == Append(history, keypoints)
  IN  IF Len(pushed) > SMOOTHING_WINDOW THEN SubSeq(pushed, 1, Len(pushed) - 1) ELSE pushed

PushHistory(history, keypoints) ==
  LET pushed == Append(history, keypoints)
  IN  IF Len(pushed) > SMOOTHING_WINDOW THEN Tail(pushed) ELSE pushed

\* the frames of the history that count for index i
ConfidentFramesAll(history, i) == history

ConfidentFrames(history, i) ==
  SelectSeq(history, LAMBDA frame : frame[i].score >= CONFIDENCE_THRESHOLD)

\* the callback of keypoints.map
\* (only the position is averaged, the score is the input's)
SmoothKeypointKeepsRawScore(history, kp, i) ==
  LET used  == ConfidentFrames(history, i)
      count == Len(used)
  IN  IF count = 0
        THEN kp
        ELSE [ kp EXCEPT
                 !.position = [ x |-> SumSeq([k \in 1 .. count |-> used[k][i].position.x]) \div count,
                                y |-> SumSeq([k \in 1 .. count |-> used[k][i].position.y]) \div count ] ]

\* (the object returned is built without `...kp`)
SmoothKeypointWithoutLabel(history, kp, i) ==
  LET used  == ConfidentFrames(history, i)
      count == Len(used)
  IN  IF count = 0
        THEN kp
        ELSE [ position |-> [ x |-> SumSeq([k \in 1 .. count |-> used[k][i].position.x]) \div count,
                              y |-> SumSeq([k \in 1 .. count |-> used[k][i].position.y]) \div count ],
               score |-> SumSeq([k \in 1 .. count |-> used[k][i].score]) \div count ]

SmoothKeypoint(history, kp, i) ==
  LET used  == ConfidentFrames(history, i)
      count == Len(used)
      sumX     == SumSeq([k \in 1 .. count |-> used[k][i].position.x])
      sumY     == SumSeq([k \in 1 .. count |-> used[k][i].position.y])
      sumScore == SumSeq([k \in 1 .. count |-> used[k][i].score])
  IN  IF count = 0
        THEN kp
        ELSE [ kp EXCEPT !.position = [x |-> sumX \div count, y |-> sumY \div count],
                         !.score = sumScore \div count ]

\* the value returned, given the history after the push
\* (no early return, and the sums divided by the window's length)
SmoothedFrameOverWindow(history, keypoints) ==
  [ i \in DOMAIN keypoints |->
      LET used  == ConfidentFrames(history, i)
          count == Len(used)
      IN  IF count = 0
            THEN keypoints[i]
            ELSE [ keypoints[i] EXCEPT
                     !.position = [ x |-> SumSeq([k \in 1 .. count |-> used[k][i].position.x])
                                            \div SMOOTHING_WINDOW,
                                    y |-> SumSeq([k \in 1 .. count |-> used[k][i].position.y])
                                            \div SMOOTHING_WINDOW ],
                     !.score = SumSeq([k \in 1 .. count |-> used[k][i].score])
                                 \div SMOOTHING_WINDOW ] ]

SmoothedFrame(history, keypoints) ==
  IF Len(history) < 2
    THEN keypoints
    ELSE [ i \in DOMAIN keypoints |-> SmoothKeypoint(history, keypoints[i], i) ]

\* ---------------------------------------------------- calculatePartCenter
NullCenter == [n |-> 0, sx |-> 0, sy |-> 0]

PartKeypointsAny(keypoints, partIndices) ==
  [ k \in 1 .. Len(partIndices) |-> keypoints[partIndices[k]] ]

PartKeypoints(keypoints, partIndices) ==
  SelectSeq([ k \in 1 .. Len(partIndices) |-> keypoints[partIndices[k]] ],
            LAMBDA kp : kp.score >= CONFIDENCE_THRESHOLD)

calculatePartCenter(keypoints, partIndices) ==
  LET used  == PartKeypoints(keypoints, partIndices)
      count == Len(used)
  IN  IF count = 0
        THEN NullCenter
        ELSE [ n  |-> count,
               sx |-> SumSeq([k \in 1 .. count |-> used[k].position.x]),
               sy |-> SumSeq([k \in 1 .. count |-> used[k].position.y]) ]

CurrentParts(smoothedKeypoints) ==
  [ p \in { PartNames[k] : k \in 1 .. Len(PartNames) } |->
      calculatePartCenter(smoothedKeypoints, BODY_PARTS[p]) ]

\* -------------------------------------------------------- analyzeMovement
\* current - previous, as numerators over Denominator(current, previous)
DeltaX(current, previous) == current.sx * previous.n - previous.sx * current.n
DeltaY(current, previous) == current.sy * previous.n - previous.sy * current.n

\* pixels -> the unit of DeltaX / DeltaY
Denominator(current, previous) == current.n * previous.n * Scale

Defined(center) == center.n # 0

\* Math.abs(delta) > MOVEMENT_THRESHOLD
AxisMovedOrEquals(delta, den) == Abs(delta) >= MOVEMENT_THRESHOLD * den

AxisMoved(delta, den) == Abs(delta) > MOVEMENT_THRESHOLD * den

HeadMovementsCoupled(current, previous) ==
  IF Defined(current) /\ Defined(previous)
    THEN LET den == Denominator(current, previous)
             headDeltaX == DeltaX(current, previous)
             headDeltaY == DeltaY(current, previous)
         IN  IF AxisMoved(headDeltaX, den)
               THEN <<IF headDeltaX > 0 THEN "Head turned left" ELSE "Head turned right">>
               ELSE IF AxisMoved(headDeltaY, den)
                      THEN <<IF headDeltaY > 0 THEN "Head tilted down" ELSE "Head tilted up">>
                      ELSE <<>>
    ELSE <<>>

HeadMovements(current, previous) ==
  IF Defined(current) /\ Defined(previous)
    THEN LET den == Denominator(current, previous)
             headDeltaX == DeltaX(current, previous)
             headDeltaY == DeltaY(current, previous)
         IN  (IF AxisMoved(headDeltaX, den)
                THEN <<IF headDeltaX > 0 THEN "Head turned left" ELSE "Head turned right">>
                ELSE <<>>)
             \o
             (IF AxisMoved(headDeltaY, den)
                THEN <<IF headDeltaY > 0 THEN "Head tilted down" ELSE "Head tilted up">>
                ELSE <<>>)
    ELSE <<>>

\* Math.sqrt(dx^2 + dy^2) > halves / 2 pixels.  (The first two disjuncts are
\* implied by the third; they keep the squares within TLC's integers.)
DistanceExceedsOrEquals(current, previous, halves) ==
  LET limit == halves * (Denominator(current, previous) \div 2)
      dx == Abs(DeltaX(current, previous))
      dy == Abs(DeltaY(current, previous))
  IN  dx > limit \/ dy > limit \/ dx * dx + dy * dy >= limit * limit

DistanceExceeds(current, previous, halves) ==
  LET limit == halves * (Denominator(current, previous) \div 2)
      dx == Abs(DeltaX(current, previous))
      dy == Abs(DeltaY(current, previous))
  IN  dx > limit \/ dy > limit \/ dx * dx + dy * dy > limit * limit

\* one event per axis, as for the head
LimbMovementPerAxis(part, current, previous) ==
  IF Defined(current) /\ Defined(previous)
    THEN LET den == Denominator(current, previous)
         IN  (IF AxisMoved(DeltaX(current, previous), den) THEN <<LimbText[part]>> ELSE <<>>)
             \o
             (IF AxisMoved(DeltaY(current, previous), den) THEN <<LimbText[part]>> ELSE <<>>)
    ELSE <<>>

\* a limb that appears or disappears counts as moved
LimbMovementReportsMissing(part, current, previous) ==
  IF Defined(current) /\ Defined(previous)
    THEN IF DistanceExceeds(current, previous, 2 * MOVEMENT_THRESHOLD)
           THEN <<LimbText[part]>> ELSE <<>>
    ELSE IF Defined(current) \/ Defined(previous) THEN <<LimbText[part]>> ELSE <<>>

LimbMovement(part, current, previous) ==
  IF Defined(current) /\ Defined(previous) /\ DistanceExceeds(current, previous, 2 * MOVEMENT_THRESHOLD)
    THEN <<LimbText[part]>>
    ELSE <<>>

RECURSIVE LimbMovements(_, _, _)
LimbMovements(parts, currentParts, previousParts) ==
  IF parts = <<>>
    THEN <<>>
    ELSE LimbMovement(Head(parts), currentParts[Head(parts)], previousParts[Head(parts)])
         \o LimbMovements(Tail(parts), currentParts, previousParts)

TorsoMovementBaseThreshold(current, previous) ==
  IF Defined(current) /\ Defined(previous) /\ DistanceExceeds(current, previous, 2 * MOVEMENT_THRESHOLD)
    THEN <<"Body movement">>
    ELSE <<>>

\* distance > MOVEMENT_THRESHOLD * 1.5
TorsoMovement(current, previous) ==
  IF Defined(current) /\ Defined(previous) /\ DistanceExceeds(current, previous, 3 * MOVEMENT_THRESHOLD)
    THEN <<"Body movement">>
    ELSE <<>>

\* the list `movements` of one call that has previous part centers
MovementsTorsoFirst(currentParts, previousParts) ==
  TorsoMovement(currentParts.torso, previousParts.torso)
  \o HeadMovements(currentParts.head, previousParts.head)
  \o LimbMovements(Limbs, currentParts, previousParts)

Movements(currentParts, previousParts) ==
  HeadMovements(currentParts.head, previousParts.head)
  \o LimbMovements(Limbs, currentParts, previousParts)
  \o TorsoMovement(currentParts.torso, previousParts.torso)

\* the setMotionLog updater: [...newEntries, ...prev].slice(0, 10)
\* (an entry's `time` is a display string no code reads; entries carry the text)
RecordMovementsKeepsNewest(prev, movements) ==
  LET all == prev \o [k \in 1 .. Len(movements) |-> [text |-> movements[k]]]
  IN  SubSeq(all, Len(all) - Min(Len(all), LOG_CAPACITY) + 1, Len(all))

RecordMovements(prev, movements) ==
  LET newEntries == [k \in 1 .. Len(movements) |-> [text |-> movements[k]]]
      all == newEntries \o prev
  IN  SubSeq(all, 1, Min(Len(all), LOG_CAPACITY))

\* ------------------------------------------------------------------ state
VARIABLES
  modelLoaded, modelError, detecting, motionLog,          \* useState
  modelRef, animationId, frameCount,                      \* useRef
  keypointHistory, previousKeypoints,                     \* useRef
  mounted,        \* the component is mounted: videoRef.current and canvasRef.current are set
  initStep,       \* where init() stands: "camera", "metadata", "model", "done"
  readyState,     \* video.readyState: 0, 1 (metadata), 2 (2 or more: a frame is available)
  awaiting,       \* detectPose invocations suspended in await estimateSinglePose
  rafOthers,      \* pending requestAnimationFrame callbacks other than the one animationId names
  canvas,         \* what drawBodyParts drew last
  frames,         \* history variable: the number of successful estimations so far
  last,           \* history variable: the latest successful estimation and what it did
  failed,         \* history variable: the step just taken was an estimation that gave no pose or threw
  showWelcome, showCamera, showBodyTracking, cameraReady,     \* App: useState
  streamRef,      \* App: streamRef.current, "null" or "stream" (a stream whose tracks are live)
  requests,       \* App: getUserMedia requests of startCamera that have not settled
  strayStreams    \* App: streams with live tracks that streamRef.current does not name

vars ==
  << modelLoaded, modelError, detecting, motionLog, modelRef, animationId, frameCount,
     keypointHistory, previousKeypoints, mounted, initStep, readyState, awaiting,
     rafOthers, canvas, frames, last, failed,
     showWelcome, showCamera, showBodyTracking, cameraReady, streamRef, requests,
     strayStreams >>

\* the refs and state of App
appVars ==
  << showWelcome, showCamera, showBodyTracking, cameraReady, streamRef, requests,
     strayStreams >>

\* of these, what BodyTracking's onClose leaves alone
cameraVars == << showWelcome, showCamera, cameraReady, streamRef, requests, strayStreams >>

\* animationIdRef.current: "null", the id of a pending callback ("scheduled"), or
\* the id of a callback that has run or was cancelled ("spent").  The browser's
\* callback list is the callback animationId names (when "scheduled") plus rafOthers.
\* `last`: the frame, what applyTemporalSmoothing returned for it, frameCountRef
\* after the increment, whether analyzeMovement ran and, if it did, the
\* previousKeypointsRef it read, the list `movements` it built and the length of
\* the log it found; `since`: the successful estimations since the latest run
\* of analyzeMovement before this frame, this frame counted.
\* `centers`: the part centers of the latest frame analyzeMovement was run on;
\* `held`: those of the frame it was run on before that one; `older`: those of
\* the frame before `held`'s.
NoFrame ==
  [ frame |-> <<>>, smoothed |-> <<>>, count |-> 0, analyzed |-> FALSE,
    previous |-> <<>>, movements |-> <<>>, logBefore |-> 0, since |-> 0,
    centers |-> <<>>, held |-> <<>>, older |-> <<>> ]

Init ==
  /\ modelLoaded = FALSE
  /\ modelError = "null"
  /\ detecting = FALSE
  /\ motionLog = <<>>
  /\ modelRef = FALSE
  /\ animationId = "null"
  /\ frameCount = 0
  /\ keypointHistory = <<>>
  /\ previousKeypoints = <<>>
  /\ mounted = TRUE
  /\ initStep = "camera"
  /\ readyState = 0
  /\ awaiting = 0
  /\ rafOthers = 0
  /\ canvas = <<>>
  /\ frames = 0
  /\ last = NoFrame
  /\ failed = FALSE
  /\ showWelcome = FALSE
  /\ showCamera = FALSE
  /\ showBodyTracking = TRUE
  /\ cameraReady = FALSE
  /\ streamRef = "null"
  /\ requests = 0
  /\ strayStreams = 0

Loops == awaiting + rafOthers + (IF animationId = "scheduled" THEN 1 ELSE 0)

\* animationIdRef.current = requestAnimationFrame(detectPose)
RequestFrame ==
  /\ animationId' = "scheduled"
  /\ rafOthers' = rafOthers + (IF animationId = "scheduled" THEN 1 ELSE 0)

\* (the guard looks at the model only, not at the video element)
DetectPoseWithoutVideoCheck(id, others) ==
  IF ~modelRef
    THEN /\ animationId' = id
         /\ rafOthers' = others
         /\ awaiting' = awaiting
    ELSE IF mounted /\ readyState < 2
           THEN /\ animationId' = "scheduled"
                /\ rafOthers' = others + (IF id = "scheduled" THEN 1 ELSE 0)
                /\ awaiting' = awaiting
           ELSE /\ animationId' = id
                /\ rafOthers' = others
                /\ awaiting' = awaiting + 1

\* detectPose up to its await, run when the callback list is `others` and
\* animationIdRef.current is `id`
DetectPose(id, others) ==
  IF ~modelRef \/ ~mounted
    THEN /\ animationId' = id
         /\ rafOthers' = others
         /\ awaiting' = awaiting
    ELSE IF readyState < 2
           THEN /\ animationId' = "scheduled"
                /\ rafOthers' = others + (IF id = "scheduled" THEN 1 ELSE 0)
                /\ awaiting' = awaiting
           ELSE /\ animationId' = id
                /\ rafOthers' = others
                /\ awaiting' = awaiting + 1

\* ------------------------------------------------------------------- init()
CameraGranted ==
  /\ initStep = "camera"
  /\ initStep' = IF mounted THEN "metadata" ELSE "model"
  /\ failed' = FALSE
  /\ UNCHANGED appVars
  /\ UNCHANGED << modelLoaded, modelError, detecting, motionLog, modelRef, animationId,
                  frameCount, keypointHistory, previousKeypoints, mounted, readyState,
                  awaiting, rafOthers, canvas, frames, last >>

CameraDenied ==
  /\ initStep = "camera"
  /\ initStep' = "model"
  /\ failed' = FALSE
  /\ UNCHANGED appVars
  /\ UNCHANGED << modelLoaded, modelError, detecting, motionLog, modelRef, animationId,
                  frameCount, keypointHistory, previousKeypoints, mounted, readyState,
                  awaiting, rafOthers, canvas, frames, last >>

\* video.onloadedmetadata: play(), resolve()
LoadedMetadata ==
  /\ initStep = "metadata"
  /\ mounted
  /\ initStep' = "model"
  /\ readyState' = 1
  /\ failed' = FALSE
  /\ UNCHANGED appVars
  /\ UNCHANGED << modelLoaded, modelError, detecting, motionLog, modelRef, animationId,
                  frameCount, keypointHistory, previousKeypoints, mounted,
                  awaiting, rafOthers, canvas, frames, last >>

\* the playing video receives its first frame
VideoHasData ==
  /\ readyState = 1
  /\ readyState' = 2
  /\ failed' = FALSE
  /\ UNCHANGED appVars
  /\ UNCHANGED << modelLoaded, modelError, detecting, motionLog, modelRef, animationId,
                  frameCount, keypointHistory, previousKeypoints, mounted, initStep,
                  awaiting, rafOthers, canvas, frames, last >>

LoadModelSucceeds ==
  /\ initStep = "model"
  /\ initStep' = "done"
  /\ modelRef' = TRUE
  /\ modelLoaded' = IF mounted THEN TRUE ELSE modelLoaded
  /\ modelError' = IF mounted THEN "null" ELSE modelError
  /\ failed' = FALSE
  /\ UNCHANGED appVars
  /\ UNCHANGED << detecting, motionLog, animationId, frameCount, keypointHistory,
                  previousKeypoints, mounted, readyState, awaiting, rafOthers, canvas,
                  frames, last >>

\* posenet.load rejects, or resolves to nothing
LoadModelFails ==
  /\ initStep = "model"
  /\ initStep' = "done"
  /\ modelError' = IF mounted THEN "Failed to load model." ELSE modelError
  /\ failed' = FALSE
  /\ UNCHANGED appVars
  /\ UNCHANGED << modelLoaded, detecting, motionLog, modelRef, animationId, frameCount,
                  keypointHistory, previousKeypoints, mounted, readyState, awaiting,
                  rafOthers, canvas, frames, last >>

\* ---------------------------------------------------------- toggleDetection
ToggleDetectionUnguarded ==
  /\ mounted
  /\ detecting' = ~detecting
  /\ IF ~detecting
       THEN /\ Loops < MaxLoops
            /\ frameCount' = 0
            /\ DetectPose(animationId, rafOthers)
       ELSE /\ animationId' = "null"
            /\ UNCHANGED << frameCount, rafOthers, awaiting >>
  /\ failed' = FALSE
  /\ UNCHANGED appVars
  /\ UNCHANGED << modelLoaded, modelError, motionLog, modelRef, keypointHistory,
                  previousKeypoints, mounted, initStep, readyState, canvas, frames, last >>

\* the guard looks at the error message instead of modelLoaded
ToggleDetectionChecksError ==
  /\ mounted
  /\ IF modelError # "null"
       THEN UNCHANGED << detecting, frameCount, animationId, rafOthers, awaiting >>
       ELSE /\ detecting' = ~detecting
            /\ IF ~detecting
                 THEN /\ Loops < MaxLoops
                      /\ frameCount' = 0
                      /\ DetectPose(animationId, rafOthers)
                 ELSE /\ animationId' = "null"
                      /\ UNCHANGED << frameCount, rafOthers, awaiting >>
  /\ failed' = FALSE
  /\ UNCHANGED appVars
  /\ UNCHANGED << modelLoaded, modelError, motionLog, modelRef, keypointHistory,
                  previousKeypoints, mounted, initStep, readyState, canvas, frames, last >>

\* a start of detection begins with an empty log
ToggleDetectionClearsLog ==
  /\ mounted
  /\ IF ~modelLoaded
       THEN UNCHANGED << detecting, frameCount, animationId, rafOthers, awaiting, motionLog >>
       ELSE /\ detecting' = ~detecting
            /\ IF ~detecting
                 THEN /\ Loops < MaxLoops
                      /\ frameCount' = 0
                      /\ motionLog' = <<>>
                      /\ DetectPose(animationId, rafOthers)
                 ELSE /\ animationId' = "null"
                      /\ UNCHANGED << frameCount, rafOthers, awaiting, motionLog >>
  /\ failed' = FALSE
  /\ UNCHANGED appVars
  /\ UNCHANGED << modelLoaded, modelError, modelRef, keypointHistory,
                  previousKeypoints, mounted, initStep, readyState, canvas, frames, last >>

ToggleDetection ==
  /\ mounted
  /\ IF ~modelLoaded
       THEN UNCHANGED << detecting, frameCount, animationId, rafOthers, awaiting >>
       ELSE /\ detecting' = ~detecting
            /\ IF ~detecting
                 THEN /\ Loops < MaxLoops
                      /\ frameCount' = 0
                      /\ DetectPose(animationId, rafOthers)
                 ELSE /\ animationId' = "null"
                      /\ UNCHANGED << frameCount, rafOthers, awaiting >>
  /\ failed' = FALSE
  /\ UNCHANGED appVars
  /\ UNCHANGED << modelLoaded, modelError, motionLog, modelRef, keypointHistory,
                  previousKeypoints, mounted, initStep, readyState, canvas, frames, last >>

\* -------------------------------------------------- the browser runs a callback
AnimationFrame ==
  /\ \/ /\ animationId = "scheduled"
        /\ DetectPose("spent", rafOthers)
     \/ /\ rafOthers > 0
        /\ DetectPose(animationId, rafOthers - 1)
  /\ failed' = FALSE
  /\ UNCHANGED appVars
  /\ UNCHANGED << modelLoaded, modelError, detecting, motionLog, modelRef, frameCount,
                  keypointHistory, previousKeypoints, mounted, initStep, readyState,
                  canvas, frames, last >>

\* ---------------------------------------------------------- analyzeMovement
\* One call, with previousKeypointsRef.current = previous (<<>> is null) and the
\* log as it stands: the new reference, the new log, and what the call found.
analyzeMovementNoBaselineCheck(smoothedKeypoints, previous, log) ==
  LET currentParts == CurrentParts(smoothedKeypoints)
      movements == Movements(currentParts,
                             IF previous # <<>> THEN previous[1] ELSE CurrentParts(PoseStill))
  IN  [ previous  |-> <<currentParts>>,
        log       |-> IF Len(movements) > 0 /\ mounted
                        THEN RecordMovements(log, movements) ELSE log,
        parts     |-> <<currentParts>>,
        movements |-> movements ]

\* a part without a center in this frame keeps the center it had
analyzeMovementKeepsLastDefined(smoothedKeypoints, previous, log) ==
  LET currentParts == CurrentParts(smoothedKeypoints)
      movements == IF previous # <<>> THEN Movements(currentParts, previous[1]) ELSE <<>>
      carried == [ p \in DOMAIN currentParts |->
                     IF currentParts[p] = NullCenter /\ previous # <<>>
                       THEN previous[1][p] ELSE currentParts[p] ]
  IN  [ previous  |-> <<carried>>,
        log       |-> IF Len(movements) > 0 /\ mounted
                        THEN RecordMovements(log, movements) ELSE log,
        parts     |-> <<currentParts>>,
        movements |-> movements ]

\* the reference moves on only with the calls that found a movement
analyzeMovementKeepsQuietReference(smoothedKeypoints, previous, log) ==
  LET currentParts == CurrentParts(smoothedKeypoints)
      movements == IF previous # <<>> THEN Movements(currentParts, previous[1]) ELSE <<>>
  IN  [ previous  |-> IF previous # <<>> /\ movements = <<>> THEN previous ELSE <<currentParts>>,
        log       |-> IF Len(movements) > 0 /\ mounted
                        THEN RecordMovements(log, movements) ELSE log,
        parts     |-> <<currentParts>>,
        movements |-> movements ]

analyzeMovement(smoothedKeypoints, previous, log) ==
  LET currentParts == CurrentParts(smoothedKeypoints)
      movements == IF previous # <<>> THEN Movements(currentParts, previous[1]) ELSE <<>>
  IN  [ previous  |-> <<currentParts>>,
        log       |-> IF Len(movements) > 0 /\ mounted
                        THEN RecordMovements(log, movements) ELSE log,
        parts     |-> <<currentParts>>,
        movements |-> movements ]

\* --------------------------------------- detectPose after estimateSinglePose
\* frameCountRef.current % FRAME_SKIP === 0
FrameIsAnalyzedOffByOne(count) == count % FRAME_SKIP = 1

FrameIsAnalyzedAlways(count) == count >= 0

FrameIsAnalyzed(count) == count % FRAME_SKIP = 0

\* the estimation resolves with a pose that has keypoints
PoseArrives(keypoints, limit) ==
  /\ awaiting > 0
  /\ frames < limit
  /\ LET history == PushHistory(keypointHistory, keypoints)
         smoothedKeypoints == SmoothedFrame(history, keypoints)
         count == frameCount + 1
         analysis == analyzeMovement(smoothedKeypoints, previousKeypoints, motionLog)
     IN  /\ keypointHistory' = history
         /\ canvas' = IF mounted THEN <<smoothedKeypoints>> ELSE canvas
         /\ frameCount' = count
         /\ IF FrameIsAnalyzed(count)
              THEN /\ previousKeypoints' = analysis.previous
                   /\ motionLog' = analysis.log
              ELSE UNCHANGED << previousKeypoints, motionLog >>
         /\ frames' = frames + 1
         /\ last' = [ frame     |-> keypoints,
                      smoothed  |-> smoothedKeypoints,
                      count     |-> count,
                      analyzed  |-> FrameIsAnalyzed(count),
                      previous  |-> IF FrameIsAnalyzed(count) THEN previousKeypoints ELSE <<>>,
                      movements |-> IF FrameIsAnalyzed(count) THEN analysis.movements ELSE <<>>,
                      logBefore |-> IF FrameIsAnalyzed(count) THEN Len(motionLog) ELSE 0,
                      since     |-> IF last.analyzed THEN 1 ELSE last.since + 1,
                      centers   |-> IF FrameIsAnalyzed(count)
                                      THEN <<CurrentParts(smoothedKeypoints)>> ELSE last.centers,
                      held      |-> IF FrameIsAnalyzed(count) THEN last.centers ELSE last.held,
                      older     |-> IF FrameIsAnalyzed(count) THEN last.held ELSE last.older ]
  /\ failed' = FALSE
  /\ UNCHANGED appVars
  /\ awaiting' = awaiting - 1
  /\ RequestFrame
  /\ UNCHANGED << modelLoaded, modelError, detecting, modelRef, mounted, initStep, readyState >>

\* the estimation resolves without a pose, or rejects (the catch branch)
NothingArrivesEndsLoop ==
  /\ awaiting > 0
  /\ failed' = TRUE
  /\ UNCHANGED appVars
  /\ awaiting' = awaiting - 1
  /\ UNCHANGED << modelLoaded, modelError, detecting, motionLog, modelRef, animationId,
                  frameCount, keypointHistory, previousKeypoints, mounted, initStep,
                  readyState, rafOthers, canvas, frames, last >>

NothingArrives ==
  /\ awaiting > 0
  /\ failed' = TRUE
  /\ UNCHANGED appVars
  /\ awaiting' = awaiting - 1
  /\ RequestFrame
  /\ UNCHANGED << modelLoaded, modelError, detecting, motionLog, modelRef, frameCount,
                  keypointHistory, previousKeypoints, mounted, initStep, readyState,
                  canvas, frames, last >>

\* ------------------------------------------------------------------ clearLog
\* clearing the log also forgets the previous centers and restarts the count
ClearLogResetsSession ==
  /\ mounted
  /\ motionLog' = <<>>
  /\ previousKeypoints' = <<>>
  /\ frameCount' = 0
  /\ failed' = FALSE
  /\ UNCHANGED appVars
  /\ UNCHANGED << modelLoaded, modelError, detecting, modelRef, animationId,
                  keypointHistory, mounted, initStep, readyState,
                  awaiting, rafOthers, canvas, frames, last >>

ClearLog ==
  /\ mounted
  /\ motionLog' = <<>>
  /\ failed' = FALSE
  /\ UNCHANGED appVars
  /\ UNCHANGED << modelLoaded, modelError, detecting, modelRef, animationId, frameCount,
                  keypointHistory, previousKeypoints, mounted, initStep, readyState,
                  awaiting, rafOthers, canvas, frames, last >>

\* ------------------------------------- onClose: the effect's cleanup, refs reset
Unmount ==
  /\ mounted
  /\ mounted' = FALSE
  /\ animationId' = IF animationId = "scheduled" THEN "spent" ELSE animationId
  /\ failed' = FALSE
  /\ showBodyTracking' = FALSE
  /\ UNCHANGED cameraVars
  /\ UNCHANGED << modelLoaded, modelError, detecting, motionLog, modelRef, frameCount,
                  keypointHistory, previousKeypoints, initStep, readyState, awaiting,
                  rafOthers, canvas, frames, last >>

\* -------------------------------------------------------------------- App
\* what BodyTracking owns; App's own handlers leave it alone
trackingVars ==
  << modelLoaded, modelError, detecting, motionLog, modelRef, animationId, frameCount,
     keypointHistory, previousKeypoints, initStep, readyState, awaiting, rafOthers,
     canvas, frames, last, failed >>

\* App as constructed: the welcome screen is up, BodyTracking is not rendered
InitApp ==
  /\ modelLoaded = FALSE
  /\ modelError = "null"
  /\ detecting = FALSE
  /\ motionLog = <<>>
  /\ modelRef = FALSE
  /\ animationId = "null"
  /\ frameCount = 0
  /\ keypointHistory = <<>>
  /\ previousKeypoints = <<>>
  /\ mounted = FALSE
  /\ initStep = "camera"
  /\ readyState = 0
  /\ awaiting = 0
  /\ rafOthers = 0
  /\ canvas = <<>>
  /\ frames = 0
  /\ last = NoFrame
  /\ failed = FALSE
  /\ showWelcome = TRUE
  /\ showCamera = FALSE
  /\ showBodyTracking = FALSE
  /\ cameraReady = FALSE
  /\ streamRef = "null"
  /\ requests = 0
  /\ strayStreams = 0

\* what App renders
HomeScreen == ~showBodyTracking /\ ~showWelcome /\ ~showCamera
CameraScreen == ~showBodyTracking /\ ~showWelcome /\ showCamera

\* streams acquired whose tracks have not been stopped
LiveStreams == strayStreams + (IF streamRef = "stream" THEN 1 ELSE 0)

\* the timer of the welcome screen fires
WelcomeTimeout ==
  /\ showWelcome
  /\ showWelcome' = FALSE
  /\ UNCHANGED << showCamera, showBodyTracking, cameraReady, streamRef, requests,
                  strayStreams, mounted >>
  /\ UNCHANGED trackingVars

\* startCamera up to its await
StartCamera ==
  /\ HomeScreen
  /\ requests + LiveStreams < MaxStreams
  /\ showCamera' = TRUE
  /\ requests' = requests + 1
  /\ UNCHANGED << showWelcome, showBodyTracking, cameraReady, streamRef, strayStreams,
                  mounted >>
  /\ UNCHANGED trackingVars

\* getUserMedia resolves: startCamera after its await (videoRef.current is the
\* video element of the camera screen)
StreamGranted ==
  /\ requests > 0
  /\ requests' = requests - 1
  /\ strayStreams' = strayStreams + (IF streamRef = "stream" THEN 1 ELSE 0)
  /\ streamRef' = "stream"
  /\ cameraReady' = IF CameraScreen THEN TRUE ELSE cameraReady
  /\ UNCHANGED << showWelcome, showCamera, showBodyTracking, mounted >>
  /\ UNCHANGED trackingVars

\* getUserMedia rejects: the catch branch of startCamera
StreamDenied ==
  /\ requests > 0
  /\ requests' = requests - 1
  /\ UNCHANGED << showWelcome, showCamera, showBodyTracking, cameraReady, streamRef,
                  strayStreams, mounted >>
  /\ UNCHANGED trackingVars

StopCamera ==
  /\ CameraScreen
  /\ streamRef' = "null"
  /\ showCamera' = FALSE
  /\ cameraReady' = FALSE
  /\ UNCHANGED << showWelcome, showBodyTracking, requests, strayStreams, mounted >>
  /\ UNCHANGED trackingVars

\* startBodyTracking: App renders BodyTracking in place of its screens
StartBodyTracking ==
  /\ HomeScreen
  /\ showBodyTracking' = TRUE
  /\ mounted' = TRUE
  /\ UNCHANGED << showWelcome, showCamera, cameraReady, streamRef, requests, strayStreams >>
  /\ UNCHANGED trackingVars

\* ---------------------------------------------------------- specifications
\* The component, from mount to unmount.
Poses == {PoseStill, PoseRight}

Next ==
  \/ CameraGranted
  \/ CameraDenied
  \/ LoadedMetadata
  \/ VideoHasData
  \/ LoadModelSucceeds
  \/ LoadModelFails
  \/ ToggleDetection
  \/ AnimationFrame
  \/ \E keypoints \in Poses : PoseArrives(keypoints, MaxLoopFrames)
  \/ NothingArrives
  \/ ClearLog
  \/ Unmount

Spec == Init /\ [][Next]_vars

\* The browser runs every requested animation frame callback that is not
\* cancelled, and the promise of estimateSinglePose settles.
EstimationSettles ==
  \/ PoseArrives(PoseStill, MaxCloseFrames)
  \/ NothingArrives

\* The component with detection started, stopped and restarted in front of a
\* person who stands still, up to onClose and after it.
NextClose ==
  \/ CameraGranted
  \/ LoadedMetadata
  \/ VideoHasData
  \/ LoadModelSucceeds
  \/ ToggleDetection
  \/ AnimationFrame
  \/ EstimationSettles
  \/ Unmount

FairClose ==
  Init /\ [][NextClose]_vars /\ WF_vars(AnimationFrame) /\ WF_vars(EstimationSettles)

\* App: its screens and its camera; of BodyTracking only the mount and onClose.
NextApp ==
  \/ WelcomeTimeout
  \/ StartCamera
  \/ StreamGranted
  \/ StreamDenied
  \/ StopCamera
  \/ StartBodyTracking
  \/ Unmount

SpecApp == InitApp /\ [][NextApp]_vars

\* One detection session: the camera and the model come up, the user starts
\* detection once, every estimation succeeds.
StartDetection == ToggleDetection /\ ~detecting

PipePoses == {PoseStill, PoseRight, PoseDim}

NextPipe ==
  \/ CameraGranted
  \/ LoadedMetadata
  \/ VideoHasData
  \/ LoadModelSucceeds
  \/ StartDetection
  \/ AnimationFrame
  \/ \E keypoints \in PipePoses : PoseArrives(keypoints, MaxFrames)

SpecPipe == Init /\ [][NextPipe]_vars

\* One detection session long enough to overflow the log, with clearLog.
NextLog ==
  \/ CameraGranted
  \/ LoadedMetadata
  \/ VideoHasData
  \/ LoadModelSucceeds
  \/ StartDetection
  \/ AnimationFrame
  \/ \E keypoints \in Poses : PoseArrives(keypoints, MaxLogFrames)
  \/ ClearLog

SpecLog == Init /\ [][NextLog]_vars

\* Detection sessions: the camera and the model come up, the user starts, stops
\* and restarts detection and clears the log, in front of a person who stands
\* still and at some moment steps to the right and stays there.
SessionPoses ==
  IF keypointHistory # <<>> /\ keypointHistory[Len(keypointHistory)] = PoseRight
    THEN {PoseRight}
    ELSE {PoseStill, PoseRight}

NextSession ==
  \/ CameraGranted
  \/ LoadedMetadata
  \/ VideoHasData
  \/ LoadModelSucceeds
  \/ ToggleDetection
  \/ AnimationFrame
  \/ \E keypoints \in SessionPoses : PoseArrives(keypoints, MaxSessionFrames)
  \/ ClearLog

SpecSession == Init /\ [][NextSession]_vars

\* One detection session in which an estimation may give no pose or throw.
NextFlaky ==
  \/ CameraGranted
  \/ LoadedMetadata
  \/ VideoHasData
  \/ LoadModelSucceeds
  \/ StartDetection
  \/ AnimationFrame
  \/ \E keypoints \in Poses : PoseArrives(keypoints, MaxFrames)
  \/ NothingArrives

SpecFlaky == Init /\ [][NextFlaky]_vars

\* One detection session in which parts of the body leave the picture.
OccludedPoses == {PoseStill, PoseHeadOnly, PoseLegsOnly}

NextOccluded ==
  \/ CameraGranted
  \/ LoadedMetadata
  \/ VideoHasData
  \/ LoadModelSucceeds
  \/ StartDetection
  \/ AnimationFrame
  \/ \E keypoints \in OccludedPoses : PoseArrives(keypoints, MaxFrames)

SpecOccluded == Init /\ [][NextOccluded]_vars

\* One detection session in which a person is seen whole, then only the head
\* is seen, then only the legs, at another place.
Covering(keypoints) ==
  IF keypoints = PoseStill THEN 0 ELSE IF keypoints = PoseHeadOnly THEN 1 ELSE 2

PassingPoses ==
  IF keypointHistory = <<>>
    THEN OccludedPoses
    ELSE { keypoints \in OccludedPoses :
             Covering(keypoints) >= Covering(keypointHistory[Len(keypointHistory)]) }

NextPassing ==
  \/ CameraGranted
  \/ LoadedMetadata
  \/ VideoHasData
  \/ LoadModelSucceeds
  \/ StartDetection
  \/ AnimationFrame
  \/ \E keypoints \in PassingPoses : PoseArrives(keypoints, MaxPassingFrames)

SpecPassing == Init /\ [][NextPassing]_vars

\* ================================================================== claims
Range(s) == { s[k] : k \in 1 .. Len(s) }

Occurrences(s, texts) == Cardinality({ k \in 1 .. Len(s) : s[k] \in texts })

FirstN(s, n) == SubSeq(s, 1, Min(Len(s), n))

LastN(s, n) == SubSeq(s, Len(s) - Min(Len(s), n) + 1, Len(s))

\* a successful estimation is being processed in this step
FrameStep == frames' = frames + 1

\* ---- C1
\* the frames of the history whose keypoint i is confident
Confident(history, i) ==
  { k \in 1 .. Len(history) : history[k][i].score >= CONFIDENCE_THRESHOLD }

\* C1: every applyTemporalSmoothing call leaves in the history the latest
\* SMOOTHING_WINDOW frames of (old history, then the new frame), in arrival
\* order, so never more than 5 and always without the oldest once it is full.
C1_HistoryKeepsLatestFrames ==
  [][ FrameStep =>
        /\ Len(keypointHistory') <= SMOOTHING_WINDOW
        /\ Len(keypointHistory') = Min(frames', SMOOTHING_WINDOW)
        /\ keypointHistory' = LastN(keypointHistory \o <<last'.frame>>, SMOOTHING_WINDOW) ]_vars

\* the oldest frame has been evicted, and it differed from the one that stays
C1_Witness ==
  /\ frames = SMOOTHING_WINDOW + 2
  /\ Len(keypointHistory) = SMOOTHING_WINDOW
  /\ keypointHistory[1] = PoseRight
  /\ keypointHistory[2] = PoseDim
  /\ keypointHistory[SMOOTHING_WINDOW] = PoseStill

\* ---- C2
\* the sum of value(frame) over the frames of the history that are confident at i
ConfidentSum(history, i, value(_)) ==
  SumSeq([ k \in 1 .. Len(history) |->
             IF k \in Confident(history, i) THEN value(history[k]) ELSE 0 ])

\* C2: with two or more frames retained, output i of applyTemporalSmoothing is
\* the mean, over the retained frames confident at i only, of position and
\* score (output * count = sum), with the input's label; with no such frame it
\* is the input's own keypoint i.
C2_SmoothedIsConfidentMean ==
  (frames > 0 /\ Len(keypointHistory) >= 2) =>
    \A i \in Indices :
      LET count == Cardinality(Confident(keypointHistory, i))
          out   == last.smoothed[i]
      IN  IF count = 0
            THEN out = last.frame[i]
            ELSE /\ out.position.x * count =
                      ConfidentSum(keypointHistory, i, LAMBDA f : f[i].position.x)
                 /\ out.position.y * count =
                      ConfidentSum(keypointHistory, i, LAMBDA f : f[i].position.y)
                 /\ out.score * count =
                      ConfidentSum(keypointHistory, i, LAMBDA f : f[i].score)
                 /\ out.part = last.frame[i].part

\* some index averages over a proper part of the history, another has no
\* confident frame at all and keeps the raw keypoint
C2_Witness ==
  /\ frames > 0
  /\ Len(keypointHistory) >= 2
  /\ \E i \in Indices :
       /\ Cardinality(Confident(keypointHistory, i)) \in 1 .. (Len(keypointHistory) - 1)
       /\ last.smoothed[i] # last.frame[i]
  /\ \E j \in Indices :
       /\ Confident(keypointHistory, j) = {}
       /\ last.smoothed[j] = last.frame[j]

\* ---- C3
\* the places of the part's index list whose keypoint is confident
ConfidentOfPart(keypoints, partIndices) ==
  { k \in 1 .. Len(partIndices) : keypoints[partIndices[k]].score >= CONFIDENCE_THRESHOLD }

PartSum(keypoints, partIndices, value(_)) ==
  SumSeq([ k \in 1 .. Len(partIndices) |->
             IF k \in ConfidentOfPart(keypoints, partIndices)
               THEN value(keypoints[partIndices[k]]) ELSE 0 ])

IsMeanOfConfident(center, keypoints, partIndices) ==
  LET count == Cardinality(ConfidentOfPart(keypoints, partIndices))
  IN  IF count = 0
        THEN center = NullCenter
        ELSE /\ center.n = count
             /\ center.sx = PartSum(keypoints, partIndices, LAMBDA kp : kp.position.x)
             /\ center.sy = PartSum(keypoints, partIndices, LAMBDA kp : kp.position.y)

\* C3: each of the six centers analyzeMovement takes from calculatePartCenter
\* is the mean (sum over count) of the part's keypoints with score >= 0.5 in
\* the smoothed frame it was given, and null when the part has none.
C3_CenterIsMeanOfConfident ==
  last.analyzed =>
    \A p \in DOMAIN BODY_PARTS :
      IsMeanOfConfident(previousKeypoints[1][p], last.smoothed, BODY_PARTS[p])

\* one part has no confident keypoint, another has some but not all
C3_Witness ==
  /\ last.analyzed
  /\ \E p \in DOMAIN BODY_PARTS :
       /\ ConfidentOfPart(last.smoothed, BODY_PARTS[p]) = {}
       /\ previousKeypoints[1][p] = NullCenter
  /\ \E q \in DOMAIN BODY_PARTS :
       /\ Cardinality(ConfidentOfPart(last.smoothed, BODY_PARTS[q]))
            \in 1 .. (Len(BODY_PARTS[q]) - 1)
       /\ previousKeypoints[1][q].n # 0

\* ---- C4
\* C4: the analyzeMovement call that finds no previous part centers stores the
\* current centers as the reference, builds no movement and leaves the log alone.
C4_FirstCallIsBaseline ==
  [][ (FrameStep /\ last'.analyzed /\ previousKeypoints = <<>>) =>
        /\ last'.movements = <<>>
        /\ motionLog' = motionLog
        /\ previousKeypoints' = <<CurrentParts(last'.smoothed)>> ]_vars

\* the first call has run on a frame that is away from the rest pose and has an
\* undefined center; nothing was logged
C4_Witness ==
  /\ last.analyzed
  /\ last.previous = <<>>
  /\ previousKeypoints # <<>>
  /\ previousKeypoints[1].leftLeg = NullCenter
  /\ previousKeypoints[1].head # CurrentParts(PoseStill).head
  /\ motionLog = <<>>

\* ---- C5, C6, C7: displacement of a center between two analyzed frames
\* (cur.x - prev.x) and (cur.y - prev.y) in units of 1 / PixelUnit(cur, prev) pixel
ShiftX(cur, prev) == cur.sx * prev.n - prev.sx * cur.n
ShiftY(cur, prev) == cur.sy * prev.n - prev.sy * cur.n
PixelUnit(cur, prev) == cur.n * prev.n * Scale

\* the Euclidean distance between the centers is greater than halfPixels / 2
FartherThan(cur, prev, halfPixels) ==
  LET bound == halfPixels * (PixelUnit(cur, prev) \div 2)
      dx == Abs(ShiftX(cur, prev))
      dy == Abs(ShiftY(cur, prev))
  IN  IF dx > bound \/ dy > bound THEN TRUE ELSE dx * dx + dy * dy > bound * bound

\* the analyzed frame had previous centers, and part p is defined in both
Compared(p) ==
  /\ last.analyzed
  /\ last.previous # <<>>
  /\ previousKeypoints[1][p] # NullCenter
  /\ last.previous[1][p] # NullCenter

Emitted(text) == Occurrences(last.movements, {text})

\* C5: with both head centers defined, 'Head turned left' is emitted once iff
\* dx > 15, 'Head turned right' once iff dx < -15, 'Head tilted down' once iff
\* dy > 15 and 'Head tilted up' once iff dy < -15, each axis on its own.
C5_HeadAxesIndependent ==
  Compared("head") =>
    LET cur  == previousKeypoints[1].head
        prev == last.previous[1].head
        dx   == ShiftX(cur, prev)
        dy   == ShiftY(cur, prev)
        far  == MOVEMENT_THRESHOLD * PixelUnit(cur, prev)
    IN  /\ Emitted("Head turned left")  = IF dx > far THEN 1 ELSE 0
        /\ Emitted("Head turned right") = IF dx < -far THEN 1 ELSE 0
        /\ Emitted("Head tilted down")  = IF dy > far THEN 1 ELSE 0
        /\ Emitted("Head tilted up")    = IF dy < -far THEN 1 ELSE 0

\* the head moved 25 px along x and not at all along y: one turn, no tilt
C5_Witness ==
  /\ Compared("head")
  /\ ShiftX(previousKeypoints[1].head, last.previous[1].head)
       = 25 * PixelUnit(previousKeypoints[1].head, last.previous[1].head)
  /\ ShiftY(previousKeypoints[1].head, last.previous[1].head) = 0
  /\ Emitted("Head turned left") = 1
  /\ Occurrences(last.movements,
                 {"Head turned right", "Head tilted down", "Head tilted up"}) = 0

\* C6: with both centers of a limb defined, its movement event is emitted
\* exactly once iff the distance between them is greater than 15 px, else not.
C6_LimbMovesBeyondThreshold ==
  \A p \in Range(Limbs) :
    Compared(p) =>
      Emitted(LimbText[p]) =
        IF FartherThan(previousKeypoints[1][p], last.previous[1][p], 2 * MOVEMENT_THRESHOLD)
          THEN 1 ELSE 0

\* a limb moved by more than 15 px although by no more than 15 px along each
\* axis, and another limb moved by exactly 15 px and was not reported
C6_Witness ==
  /\ \E p \in Range(Limbs) :
       /\ Compared(p)
       /\ Emitted(LimbText[p]) = 1
       /\ Abs(ShiftX(previousKeypoints[1][p], last.previous[1][p]))
            <= MOVEMENT_THRESHOLD * PixelUnit(previousKeypoints[1][p], last.previous[1][p])
       /\ Abs(ShiftY(previousKeypoints[1][p], last.previous[1][p]))
            <= MOVEMENT_THRESHOLD * PixelUnit(previousKeypoints[1][p], last.previous[1][p])
  /\ \E q \in Range(Limbs) :
       /\ Compared(q)
       /\ Emitted(LimbText[q]) = 0
       /\ ShiftX(previousKeypoints[1][q], last.previous[1][q])
            = MOVEMENT_THRESHOLD * PixelUnit(previousKeypoints[1][q], last.previous[1][q])
       /\ ShiftY(previousKeypoints[1][q], last.previous[1][q]) = 0

\* C7: with both torso centers defined, 'Body movement' is emitted exactly once
\* iff the distance between them is greater than 22.5 px (45 half pixels).
C7_TorsoThresholdIsHigher ==
  Compared("torso") =>
    Emitted("Body movement") =
      IF FartherThan(previousKeypoints[1].torso, last.previous[1].torso, 3 * MOVEMENT_THRESHOLD)
        THEN 1 ELSE 0

\* the torso moved 20 px, more than 15 and less than 22.5: no event
C7_Witness ==
  /\ Compared("torso")
  /\ ShiftX(previousKeypoints[1].torso, last.previous[1].torso)
       = 20 * PixelUnit(previousKeypoints[1].torso, last.previous[1].torso)
  /\ ShiftY(previousKeypoints[1].torso, last.previous[1].torso) = 0
  /\ Emitted("Body movement") = 0

\* ---- C8
Entries(movements) == [ k \in 1 .. Len(movements) |-> [text |-> movements[k]] ]

\* C8: the log never holds more than 10 entries; a call that built movements
\* leaves the first 10 of (its batch in the detector's order, then the old
\* log), so what falls off is the tail, the oldest entries; a call that built
\* none leaves the log as it was; any other step leaves it or empties it.
C8_LogKeepsNewestTen ==
  [][ /\ Len(motionLog') <= LOG_CAPACITY
      /\ (FrameStep /\ last'.movements # <<>>) =>
           motionLog' = FirstN(Entries(last'.movements) \o motionLog, LOG_CAPACITY)
      /\ (FrameStep /\ last'.movements = <<>>) => motionLog' = motionLog
      /\ ~FrameStep => motionLog' \in {motionLog, <<>>} ]_vars

\* a batch met a log with too little room: the batch is in front, in order, over
\* entries of an older batch, and the log is full
C8_Witness ==
  /\ last.analyzed
  /\ Len(last.movements) >= 2
  /\ last.logBefore + Len(last.movements) > LOG_CAPACITY
  /\ Len(motionLog) = LOG_CAPACITY
  /\ FirstN(motionLog, Len(last.movements)) = Entries(last.movements)
  /\ motionLog[1].text = "Head turned right"
  /\ motionLog[Len(last.movements) + 1].text = "Head turned left"

\* ---- C9
\* C9: a successful estimation adds exactly one to the frame counter, pushes
\* its frame through the smoothing and draws the result; analyzeMovement runs
\* on it iff the counter is then a multiple of 5, and a frame that is not
\* analyzed leaves the previous centers and the log alone.  No other step
\* changes the counter, except the start of detection, which resets it.
C9_CounterAndFrameSkip ==
  [][ /\ FrameStep =>
           /\ frameCount' = frameCount + 1
           /\ keypointHistory'[Len(keypointHistory')] = last'.frame
           /\ last'.smoothed = SmoothedFrame(keypointHistory', last'.frame)
           /\ mounted => canvas' = <<last'.smoothed>>
           /\ last'.analyzed <=> (frameCount' % FRAME_SKIP = 0)
           /\ IF frameCount' % FRAME_SKIP = 0
                THEN previousKeypoints' = <<CurrentParts(last'.smoothed)>>
                ELSE UNCHANGED << previousKeypoints, motionLog >>
      /\ ~FrameStep =>
           \/ frameCount' = frameCount
           \/ frameCount' = 0 /\ ~detecting /\ detecting' ]_vars

\* detection was restarted: the sixth frame since mount is the fifth of its
\* session and is analyzed
C9_Witness ==
  /\ mounted
  /\ frames = FRAME_SKIP + 1
  /\ frameCount = FRAME_SKIP
  /\ last.analyzed
  /\ canvas = <<last.smoothed>>

\* ---- C10
\* pending requestAnimationFrame callbacks
Pending == rafOthers + (IF animationId = "scheduled" THEN 1 ELSE 0)

\* C10: while detection is stopped, an estimation that resolves schedules no
\* successor callback (the number of pending callbacks does not grow).
C10_InFlightFrameIsInert ==
  [][ (~detecting /\ ~detecting' /\ awaiting' < awaiting) => Pending' <= Pending ]_vars

\* ---- C11
\* C11: at most one estimation cycle is in progress or scheduled at a time
\* (suspended in the estimation, or pending as an animation-frame callback),
\* whatever the interleaving of start, stop, callbacks and completions.
C11_OneCycleAtATime == Loops <= 1

\* ---- C12
\* C12: a start of detection leaves the keypoint history and the previous part
\* centers empty along with the frame counter at zero, and the first analyzed
\* frame of a session (the one that brings the counter to 5) builds no movement.
C12_RestartClearsSession ==
  [][ /\ (~detecting /\ detecting') =>
           /\ frameCount' = 0
           /\ keypointHistory' = <<>>
           /\ previousKeypoints' = <<>>
      /\ (FrameStep /\ last'.analyzed /\ frameCount' = FRAME_SKIP) =>
           last'.movements = <<>> ]_vars

\* ---- C13
\* an estimation settles in this step
Settles == awaiting' = awaiting - 1

\* C13: an estimation that settles without a frame (no pose, or an error
\* caught) requests the next animation frame and changes neither the model
\* flags nor the history, the frame counter, the previous centers and the log.
C13_FailedEstimationIsSkipped ==
  [][ (Settles /\ ~FrameStep) =>
        /\ failed'
        /\ animationId' = "scheduled"
        /\ Pending' = Pending + 1
        /\ UNCHANGED << modelError, modelLoaded, detecting >>
        /\ UNCHANGED << keypointHistory, frameCount, previousKeypoints, motionLog >> ]_vars

\* an estimation has just failed in a session that has a full history, previous
\* centers, a counter past its second analysis and a log with entries; the next
\* callback is pending and no model error is shown
C13_Witness ==
  /\ failed
  /\ Len(keypointHistory) = SMOOTHING_WINDOW
  /\ previousKeypoints # <<>>
  /\ frameCount = 2 * FRAME_SKIP
  /\ motionLog # <<>>
  /\ modelError = "null"
  /\ detecting
  /\ animationId = "scheduled"
  /\ awaiting = 0

\* ---- C14
\* init() has finished without a model: posenet.load failed
LoadFailed == initStep = "done" /\ ~modelRef

\* C14: once the model has failed to load it stays failed (no retry); from then
\* on the error message is set (on the mounted component), modelLoaded is
\* false, and no step, toggleDetection included, makes detecting true or puts a
\* detectPose cycle in progress.
C14_LoadFailureIsTerminal ==
  [][ /\ LoadFailed => LoadFailed'
      /\ LoadFailed' =>
           /\ mounted' => modelError' # "null"
           /\ ~modelLoaded'
           /\ ~detecting'
           /\ Loops' = 0
           /\ frameCount' = 0 ]_vars

\* the load has failed with the camera up and a video frame available, so that
\* only the missing model keeps detection from starting
C14_Witness ==
  /\ LoadFailed
  /\ mounted
  /\ readyState = 2
  /\ modelError = "Failed to load model."
  /\ ~modelLoaded
  /\ ~detecting

\* ---- C15
HeadTexts == {"Head turned left", "Head turned right", "Head tilted down", "Head tilted up"}

\* C15 as claimed: a call of analyzeMovement builds at most six movements.
C15_AtMostSixEvents == Len(last.movements) <= 6

\* C15 as amended: a call of analyzeMovement builds between zero and seven
\* movements: at most one head turn and one head tilt, at most one per limb
\* and at most one for the torso, so no text twice.
C15_AtMostSevenEvents ==
  /\ Len(last.movements) <= 7
  /\ Occurrences(last.movements, {"Head turned left", "Head turned right"}) <= 1
  /\ Occurrences(last.movements, {"Head tilted down", "Head tilted up"}) <= 1
  /\ \A p \in Range(Limbs) : Emitted(LimbText[p]) <= 1
  /\ Emitted("Body movement") <= 1
  /\ Range(last.movements) \subseteq
       HeadTexts \cup { LimbText[p] : p \in Range(Limbs) } \cup {"Body movement"}

\* a call has built seven movements: the head turned and tilted, all four limbs
\* and the torso moved
C15_Witness ==
  /\ last.analyzed
  /\ Len(last.movements) = 7
  /\ Occurrences(last.movements, HeadTexts) = 2

\* ---- C16
\* the place of an event in the fixed order
Rank(text) ==
  CASE text \in {"Head turned left", "Head turned right"} -> 1
    [] text \in {"Head tilted down", "Head tilted up"}    -> 2
    [] text = "left Arm movement"                          -> 3
    [] text = "right Arm movement"                         -> 4
    [] text = "left Leg movement"                          -> 5
    [] text = "right Leg movement"                         -> 6
    [] text = "Body movement"                              -> 7

\* C16: the movements of one call come in the order head turn, head tilt,
\* leftArm, rightArm, leftLeg, rightLeg, torso, and the call leaves them at
\* the front of the log in that same order.
C16_EventsInFixedOrder ==
  /\ \A i, j \in 1 .. Len(last.movements) :
       i < j => Rank(last.movements[i]) < Rank(last.movements[j])
  /\ last.movements # <<>> =>
       /\ Len(motionLog) >= Len(last.movements)
       /\ \A k \in 1 .. Len(last.movements) : motionLog[k].text = last.movements[k]

\* a call found every kind of movement and the log starts with its batch
C16_Witness ==
  /\ last.analyzed
  /\ Len(motionLog) >= 7
  /\ [ k \in 1 .. 7 |-> motionLog[k].text ] =
       << "Head turned right", "Head tilted down", "left Arm movement",
          "right Arm movement", "left Leg movement", "right Leg movement",
          "Body movement" >>
  /\ last.movements = [ k \in 1 .. 7 |-> motionLog[k].text ]

\* ---- C17
\* C17: after a call of analyzeMovement the previous part centers are the six
\* centers of the frame the call was given, whether it built movements or not.
C17_PreviousIsCurrentAfterCall ==
  last.analyzed =>
    /\ Len(previousKeypoints) = 1
    /\ DOMAIN previousKeypoints[1] = Range(PartNames)
    /\ \A p \in Range(PartNames) :
         previousKeypoints[1][p] = calculatePartCenter(last.smoothed, BODY_PARTS[p])

\* a call compared two frames whose centers differ by less than the thresholds:
\* it built no movement and still replaced the previous centers
C17_Witness ==
  /\ last.analyzed
  /\ last.previous # <<>>
  /\ last.movements = <<>>
  /\ previousKeypoints # last.previous
  /\ previousKeypoints[1].torso = calculatePartCenter(last.smoothed, BODY_PARTS.torso)
  /\ previousKeypoints[1].torso # last.previous[1].torso

\* ---- C18
\* the texts of the events of a part
PartTexts(p) ==
  IF p = "head" THEN HeadTexts
  ELSE IF p = "torso" THEN {"Body movement"}
  ELSE {LimbText[p]}

\* the center of part p is null in the frame analyzed last or in the previous
\* centers that call read
Missing(p) ==
  \/ calculatePartCenter(last.smoothed, BODY_PARTS[p]) = NullCenter
  \/ last.previous[1][p] = NullCenter

\* C18: a call of analyzeMovement builds no movement for a part whose center is
\* null in its frame or in the previous centers; the call ends as any other:
\* it stores its centers, the estimation counts as a frame, the next callback
\* is requested and no error is set.
C18_MissingPartIsSkipped ==
  (last.analyzed /\ last.previous # <<>>) =>
    \A p \in Range(PartNames) :
      Missing(p) =>
        /\ Occurrences(last.movements, PartTexts(p)) = 0
        /\ previousKeypoints = <<CurrentParts(last.smoothed)>>
        /\ ~failed
        /\ modelError = "null"

\* everything below the head had a center in the previous analyzed frame and
\* has none in this one, and the head moved along both axes: the head is
\* reported twice, no other part is
C18_Witness ==
  /\ last.analyzed
  /\ last.previous # <<>>
  /\ \A p \in Range(PartNames) \ {"head"} :
       /\ last.previous[1][p] # NullCenter
       /\ previousKeypoints[1][p] = NullCenter
  /\ Compared("head")
  /\ last.movements = <<"Head turned left", "Head tilted down">>
  /\ animationId = "scheduled"

\* ---- C19
\* C19: clearLog can be called on any log of the mounted component, empty or
\* not; it leaves the log empty, so a second call changes nothing, and it
\* leaves the history, the previous centers, the frame counter and the
\* detecting flag as they are.
C19_ClearLogOnlyEmptiesLog ==
  [][ /\ mounted => ENABLED ClearLog
      /\ ClearLog =>
           /\ motionLog' = <<>>
           /\ UNCHANGED << keypointHistory, previousKeypoints, frameCount, detecting >> ]_vars

\* the log has been cleared in a running session right after a call that had
\* recorded movements; history, previous centers and counter are in place
C19_Witness ==
  /\ motionLog = <<>>
  /\ last.analyzed
  /\ last.movements # <<>>
  /\ detecting
  /\ Len(keypointHistory) = SMOOTHING_WINDOW
  /\ previousKeypoints = <<CurrentParts(last.smoothed)>>
  /\ frameCount = 2 * FRAME_SKIP

\* ---- C20
\* C20: a step that stops or starts detection leaves the motion log as it is;
\* the log changes only when clearLog empties it or when a call of
\* analyzeMovement puts its movements in front and cuts the result to 10.
C20_LogSurvivesPauseAndResume ==
  [][ /\ (detecting' # detecting) => motionLog' = motionLog
      /\ (motionLog' # motionLog) =>
           \/ ClearLog
           \/ /\ FrameStep
              /\ last'.movements # <<>>
              /\ motionLog' = FirstN(Entries(last'.movements) \o motionLog, LOG_CAPACITY) ]_vars

\* detection was stopped (its pending callback cancelled) and started again
\* after the tenth frame had put movements in the log: the log still holds them
C20_Witness ==
  /\ detecting
  /\ frames = 2 * FRAME_SKIP
  /\ frameCount = 0
  /\ Loops = 1
  /\ awaiting = 1
  /\ last.movements # <<>>
  /\ FirstN(motionLog, Len(last.movements)) = Entries(last.movements)

\* ---- C21
\* C21: while the history holds fewer than 2 frames after the push (one frame
\* has been fed), applyTemporalSmoothing returns the frame it was given:
\* every keypoint with its own position, score and label.
C21_SingleFrameIsReturned ==
  (frames > 0 /\ Len(keypointHistory) < 2) =>
    /\ keypointHistory = <<last.frame>>
    /\ last.smoothed = last.frame
    /\ mounted => canvas = <<last.frame>>

\* the one frame fed has confident and unconfident keypoints and came back as is
C21_Witness ==
  /\ frames = 1
  /\ keypointHistory = <<PoseDim>>
  /\ last.frame = PoseDim
  /\ last.smoothed = PoseDim
  /\ \E i, j \in Indices :
       /\ last.smoothed[i].score >= CONFIDENCE_THRESHOLD
       /\ last.smoothed[j].score < CONFIDENCE_THRESHOLD

\* ---- C22
\* the displacement from center prev to center cur that the text reports is
\* greater than 15 px: along x for a head turn, along y for a head tilt, in
\* Euclidean distance for a limb or the torso
Justifies(text, cur, prev) ==
  /\ cur # NullCenter
  /\ prev # NullCenter
  /\ CASE text \in {"Head turned left", "Head turned right"} ->
            Abs(ShiftX(cur, prev)) > MOVEMENT_THRESHOLD * PixelUnit(cur, prev)
       [] text \in {"Head tilted down", "Head tilted up"} ->
            Abs(ShiftY(cur, prev)) > MOVEMENT_THRESHOLD * PixelUnit(cur, prev)
       [] OTHER -> FartherThan(cur, prev, 2 * MOVEMENT_THRESHOLD)

\* the part an event text is about
PartOf(text) ==
  CASE text \in HeadTexts -> "head"
    [] text = "Body movement" -> "torso"
    [] OTHER -> CHOOSE p \in Range(Limbs) : LimbText[p] = text

\* C22: the log gets entries only from a call of analyzeMovement that had
\* previous centers, and each entry it gets is about a part whose center is
\* more than 15 px from its center in the previous analyzed frame (along the
\* axis named for the head, in distance for limbs and torso); a displacement
\* of 15 px or less puts nothing in the log.
C22_LoggedMeansBeyondThreshold ==
  [][ /\ ~FrameStep => motionLog' \in {motionLog, <<>>}
      /\ (FrameStep /\ motionLog' # motionLog) =>
           /\ last'.analyzed
           /\ previousKeypoints # <<>>
           /\ motionLog' = FirstN(Entries(last'.movements) \o motionLog, LOG_CAPACITY)
           /\ \A k \in 1 .. Len(last'.movements) :
                Justifies(last'.movements[k],
                          previousKeypoints'[1][PartOf(last'.movements[k])],
                          previousKeypoints[1][PartOf(last'.movements[k])]) ]_vars

\* the head went 20 px down and 12 px sideways between two analyzed frames:
\* the tilt is at the front of the log, no turn was logged
C22_Witness ==
  /\ Compared("head")
  /\ Abs(ShiftX(previousKeypoints[1].head, last.previous[1].head))
       = 12 * PixelUnit(previousKeypoints[1].head, last.previous[1].head)
  /\ ShiftY(previousKeypoints[1].head, last.previous[1].head)
       = 20 * PixelUnit(previousKeypoints[1].head, last.previous[1].head)
  /\ motionLog # <<>>
  /\ motionLog[1].text = "Head tilted down"
  /\ \A k \in 1 .. Len(motionLog) :
       motionLog[k].text \notin {"Head turned left", "Head turned right"}

\* ---- C23
\* C23: a run of analyzeMovement that has previous centers to compare with
\* comes exactly 5 successful estimations after the run that stored them, also
\* when detection was stopped and started in between.
C23_AnalysesFiveFramesApart ==
  (last.analyzed /\ last.previous # <<>>) => last.since = FRAME_SKIP

\* ---- C24
\* C24: on every successful estimation applyTemporalSmoothing returns one
\* entry per input keypoint (17), entry i with the fields and the label of
\* input keypoint i; the input frame is stored in the history as it was
\* given and the frames already there are not altered; when analyzeMovement
\* does not run on the frame, the previous centers and the log are as before,
\* and the counter has only the increment detectPose makes.
C24_SmoothingTouchesOnlyHistory ==
  [][ FrameStep =>
        /\ DOMAIN last'.smoothed = DOMAIN last'.frame
        /\ Cardinality(DOMAIN last'.smoothed) = NUM_KEYPOINTS
        /\ \A i \in DOMAIN last'.frame :
             /\ DOMAIN last'.smoothed[i] = DOMAIN last'.frame[i]
             /\ last'.smoothed[i].part = last'.frame[i].part
        /\ keypointHistory'[Len(keypointHistory')] = last'.frame
        /\ \A k \in 1 .. (Len(keypointHistory') - 1) :
             keypointHistory'[k] = keypointHistory[Len(keypointHistory) + 1 - Len(keypointHistory') + k]
        /\ frameCount' = frameCount + 1
        /\ ~last'.analyzed => UNCHANGED << previousKeypoints, motionLog >> ]_vars

\* the smoothing returned positions other than the input's on a frame that is
\* not analyzed; the history holds the input itself, behind older frames
C24_Witness ==
  /\ frames > SMOOTHING_WINDOW
  /\ ~last.analyzed
  /\ previousKeypoints # <<>>
  /\ \E i \in Indices :
       /\ last.smoothed[i].position # last.frame[i].position
       /\ last.smoothed[i].part = last.frame[i].part
  /\ keypointHistory[SMOOTHING_WINDOW] = last.frame
  /\ keypointHistory[1] # last.frame

\* ---- C25
\* C25: a successful estimation that brings the counter to a value that is not
\* a multiple of 5 leaves the previous part centers and the motion log (and
\* the model and detecting flags) as they were; the history takes the frame
\* and the counter goes up by one.
C25_SkippedFrameKeepsCentersAndLog ==
  [][ (FrameStep /\ frameCount' % FRAME_SKIP # 0) =>
        /\ previousKeypoints' = previousKeypoints
        /\ motionLog' = motionLog
        /\ UNCHANGED << modelLoaded, modelError, detecting, modelRef >>
        /\ keypointHistory' = LastN(Append(keypointHistory, last'.frame), SMOOTHING_WINDOW)
        /\ frameCount' = frameCount + 1 ]_vars

\* the eleventh frame was not analyzed: the log holds what the tenth put
\* there, and the previous centers are not the centers of this frame
C25_Witness ==
  /\ frames = 2 * FRAME_SKIP + 1
  /\ frameCount = frames
  /\ ~last.analyzed
  /\ motionLog # <<>>
  /\ previousKeypoints # <<>>
  /\ previousKeypoints # <<CurrentParts(last.smoothed)>>
  /\ keypointHistory[SMOOTHING_WINDOW] = last.frame

\* ---- C26
\* the places of a part's index list whose keypoint has a confident sample in
\* the history
RememberedOfPart(history, partIndices) ==
  { k \in 1 .. Len(partIndices) : Confident(history, partIndices[k]) # {} }

\* C26: with 2 or more frames in the history, the smoothed score of keypoint i
\* is >= 0.5 iff some frame of the history has score >= 0.5 at i, and is the
\* input's raw score otherwise; so the center of a part counts exactly the
\* keypoints with a confident sample in the history, whatever their raw score
\* in the current frame.
C26_ConfidenceOutlivesTheFrame ==
  (frames > 0 /\ Len(keypointHistory) >= 2) =>
    /\ \A i \in Indices :
         /\ (last.smoothed[i].score >= CONFIDENCE_THRESHOLD)
              <=> (Confident(keypointHistory, i) # {})
         /\ Confident(keypointHistory, i) = {} =>
              /\ last.smoothed[i].score = last.frame[i].score
              /\ last.frame[i].score < CONFIDENCE_THRESHOLD
    /\ last.analyzed =>
         \A p \in Range(PartNames) :
           previousKeypoints[1][p].n
             = Cardinality(RememberedOfPart(keypointHistory, BODY_PARTS[p]))

\* the current frame has no confident keypoint of the left leg, the history
\* has: the left leg has a center made of all three keypoints and its movement
\* is reported
C26_Witness ==
  /\ last.analyzed
  /\ \A k \in 1 .. 3 : last.frame[BODY_PARTS.leftLeg[k]].score < CONFIDENCE_THRESHOLD
  /\ \A k \in 1 .. 3 : last.smoothed[BODY_PARTS.leftLeg[k]].score >= CONFIDENCE_THRESHOLD
  /\ previousKeypoints[1].leftLeg.n = 3
  /\ Emitted("left Leg movement") = 1

\* ---- C27
\* C27: a part whose center was null in the frame analyzed before this one gets
\* no movement in this one, wherever its center is now and wherever it was in
\* an older analyzed frame: the movements of an analyzed frame are those of its
\* centers against the centers of the frame analyzed just before it.
C27_NoOlderCenterIsKept ==
  (last.analyzed /\ last.held # <<>>) =>
    /\ \A p \in Range(PartNames) :
         last.held[1][p] = NullCenter =>
           Occurrences(last.movements, PartTexts(p)) = 0
    /\ last.movements = Movements(last.centers[1], last.held[1])

\* the left leg had a center two analyzed frames ago, none in the analyzed
\* frame before this one, and has one now, more than 15 px from the older
\* one: no movement of the left leg is built
C27_Witness ==
  /\ last.analyzed
  /\ last.held # <<>>
  /\ last.older # <<>>
  /\ last.older[1].leftLeg # NullCenter
  /\ last.held[1].leftLeg = NullCenter
  /\ last.centers[1].leftLeg # NullCenter
  /\ FartherThan(last.centers[1].leftLeg, last.older[1].leftLeg, 2 * MOVEMENT_THRESHOLD)
  /\ Emitted("left Leg movement") = 0
  /\ previousKeypoints = last.centers

\* ---- C28
\* C28: detecting is true only while modelLoaded is true: toggleDetection called
\* before the model has loaded leaves detecting, the frame counter and the
\* detectPose cycles as they are, and modelLoaded, once true, stays true.
C28_DetectingNeedsModel ==
  [][ /\ detecting => modelLoaded
      /\ detecting' => modelLoaded'
      /\ modelLoaded => modelLoaded'
      /\ (ToggleDetection /\ ~modelLoaded) =>
           /\ UNCHANGED << detecting, frameCount, animationId, rafOthers, awaiting >>
           /\ Loops' = Loops ]_vars

\* the camera is up and a video frame is available while posenet.load is still
\* pending: only the guard on modelLoaded keeps toggleDetection from starting
C28_Witness ==
  /\ mounted
  /\ initStep = "model"
  /\ readyState = 2
  /\ ~modelLoaded
  /\ modelError = "null"
  /\ ~detecting
  /\ Loops = 0
  /\ ENABLED ToggleDetection

\* ---- C29
\* C29: after the component has unmounted the detection loop comes to an end:
\* the cleanup cancels the callback animationIdRef names; from then on no
\* estimation is started, a callback that runs returns without a successor,
\* and an estimation that settles requests one callback and no more, so the
\* number of cycles in progress never grows and in the end is zero.
C29_LoopEndsAfterUnmount ==
  /\ [][ /\ Unmount => animationId' # "scheduled"
         /\ ~mounted =>
              /\ awaiting' <= awaiting
              /\ Loops' <= Loops
              /\ Pending' <= Pending + (awaiting - awaiting')
         /\ (~mounted /\ AnimationFrame) =>
              /\ Pending' = Pending - 1
              /\ awaiting' = awaiting ]_vars
  /\ (~mounted ~> Loops = 0)

\* the estimation that was in flight at unmount has settled and has requested
\* a callback, the only one pending
C29_Witness ==
  /\ ~mounted
  /\ awaiting = 0
  /\ animationId = "scheduled"
  /\ rafOthers = 0
  /\ frames > 0

\* ---- C30
\* C30: while App's camera screen is closed no camera stream is held:
\* streamRef.current is null, no acquired stream has live tracks and cameraReady
\* is false, also when stopCamera ran while getUserMedia was pending.
C30_NoStreamWhileCameraClosed ==
  ~showCamera =>
    /\ streamRef = "null"
    /\ LiveStreams = 0
    /\ ~cameraReady

====
